---- MODULE Spec2Model ----
(***************************************************************************)
(* Order lifecycle and cart-to-checkout state machine of the customer      *)
(* ordering front end: the OrderProvider context (table, cart, active      *)
(* order, payment methods, selected method), the Menu, Cart and Payment    *)
(* pages that drive it, and the REST collaborator they call.               *)
(*                                                                         *)
(* Seven specifications share the variables:                               *)
(*   SpecCart   the cart operations of the context called with arbitrary   *)
(*              arguments (the context's programmatic surface);            *)
(*   Spec       the application as a user drives it: a control acts only   *)
(*              when its page is mounted, it is rendered and not disabled; *)
(*   SpecCalls  Spec plus direct invocations of the page handlers whose    *)
(*              own guards duplicate what the rendering already prevents;  *)
(*   SpecTracker  the OrderStatus page from its mount on /order-status:    *)
(*              its effect, its 5 s interval, loadOrder and the answers    *)
(*              to it, and the ways out of the page.  Spec and SpecCalls   *)
(*              leave the refresh loop out.                                *)
(*   SpecScan   Spec plus the location changing, during the session, to a  *)
(*              menu URL that carries another table's QR parameters.       *)
(*   SpecSilent  Spec with weak fairness on the pages' effects, and on     *)
(*              nothing else: the collaborator need not answer.            *)
(*   SpecMonotone  the OrderStatus page against a collaborator whose       *)
(*              status for the order only advances.                        *)
(***************************************************************************)
EXTENDS Integers, Sequences, FiniteSets, Bags, TLC

(***************************************************************************)
(* Bounds of the model.                                                    *)
(***************************************************************************)
MaxQty == 2
MaxCheckouts == 2
MaxInFlight == 2
MaxMenuItems == 1
MaxLoads == 3
MaxCallQty == 3

(***************************************************************************)
(* Values.  A slot that is null / undefined in the program holds a         *)
(* sentinel of the slot's own shape.                                       *)
(***************************************************************************)
MenuItemIds == {"a", "b"}
\* The items of the menu on display, as many as the bound admits.
MenuOrder == <<"a", "b">>
DisplayedItems ==
  { MenuOrder[i] : i \in { k \in 1..Len(MenuOrder) : k <= MaxMenuItems } }
price(item) == IF item = "a" THEN 500 ELSE 1200

NoNote == "<undefined>"
Notes == {"", "x"}
QuantityArgs == (0 - 1) .. MaxCallQty

NoTable == [id |-> "<null>", tableNumber |-> "<null>"]
NoOrder == [id |-> 0, status |-> "<null>", paymentMethod |-> "<null>"]
NoMethod == [id |-> "<null>", type |-> "<null>", isActive |-> FALSE]
NoError == "<null>"
NoPaymentId == "<null>"
NoOrderId == 0

HasLine(cart, itemId) == \E i \in 1..Len(cart) : cart[i].menuItem = itemId

(***************************************************************************)
(* Cart Model: the setCartItems updaters of OrderProvider, as functions of *)
(* the previous cart.                                                      *)
(***************************************************************************)
addToCartAlwaysAppends(prev, item, quantity) ==
  Append(prev, [menuItem |-> item, quantity |-> quantity,
                specialInstructions |-> NoNote])

addToCartReplacesQuantity(prev, item, quantity) ==
  IF HasLine(prev, item)
  THEN [i \in 1..Len(prev) |->
          IF prev[i].menuItem = item
          THEN [prev[i] EXCEPT !.quantity = quantity]
          ELSE prev[i]]
  ELSE Append(prev, [menuItem |-> item, quantity |-> quantity,
                     specialInstructions |-> NoNote])

addToCart(prev, item, quantity) ==
  IF HasLine(prev, item)
  THEN [i \in 1..Len(prev) |->
          IF prev[i].menuItem = item
          THEN [prev[i] EXCEPT !.quantity = prev[i].quantity + quantity]
          ELSE prev[i]]
  ELSE Append(prev, [menuItem |-> item, quantity |-> quantity,
                     specialInstructions |-> NoNote])

removeFromCartKeepsMatching(prev, itemId) ==
  LET keep(ci) == ci.menuItem = itemId IN SelectSeq(prev, keep)

removeFromCart(prev, itemId) ==
  LET keep(ci) == ci.menuItem # itemId IN SelectSeq(prev, keep)

updateCartItemQuantityAdds(prev, itemId, quantity) ==
  IF quantity <= 0
  THEN removeFromCart(prev, itemId)
  ELSE [i \in 1..Len(prev) |->
          IF prev[i].menuItem = itemId
          THEN [prev[i] EXCEPT !.quantity = @ + quantity]
          ELSE prev[i]]

updateCartItemQuantity(prev, itemId, quantity) ==
  IF quantity <= 0
  THEN removeFromCart(prev, itemId)
  ELSE [i \in 1..Len(prev) |->
          IF prev[i].menuItem = itemId
          THEN [prev[i] EXCEPT !.quantity = quantity]
          ELSE prev[i]]

updateCartItemInstructionsResetsQuantity(prev, itemId, instructions) ==
  [i \in 1..Len(prev) |->
     IF prev[i].menuItem = itemId
     THEN [prev[i] EXCEPT !.specialInstructions = instructions, !.quantity = 1]
     ELSE prev[i]]

updateCartItemInstructions(prev, itemId, instructions) ==
  [i \in 1..Len(prev) |->
     IF prev[i].menuItem = itemId
     THEN [prev[i] EXCEPT !.specialInstructions = instructions]
     ELSE prev[i]]

clearCart == <<>>

getCartTotalFirstLine(cart) ==
  IF cart = <<>> THEN 0 ELSE price(Head(cart).menuItem) * Head(cart).quantity

RECURSIVE getCartTotal(_)
getCartTotal(cart) ==
  IF cart = <<>> THEN 0
  ELSE price(Head(cart).menuItem) * Head(cart).quantity + getCartTotal(Tail(cart))

(***************************************************************************)
(* Payment method descriptors and the lists the collaborator may answer    *)
(* GET /payment-methods with.                                              *)
(***************************************************************************)
mCash == [id |-> "pm-cash", type |-> "cash", isActive |-> TRUE]
mPos == [id |-> "pm-pos", type |-> "pos", isActive |-> TRUE]
mTransfer == [id |-> "pm-transfer", type |-> "transfer", isActive |-> TRUE]
mOff == [id |-> "pm-off", type |-> "transfer", isActive |-> FALSE]
PaymentMethodResponses ==
  { <<mCash, mPos>>, <<mOff, mTransfer, mCash>>, <<mOff>> }

filterNothing(methods) == methods

filterActive(methods) ==
  LET active(m) == m.isActive IN SelectSeq(methods, active)

defaultMethodFirstListed(methods) ==
  IF methods # <<>> THEN methods[1].type ELSE "cash"

\* activeMethods[0]?.type || 'cash'
defaultMethod(methods) ==
  IF filterActive(methods) # <<>> THEN filterActive(methods)[1].type ELSE "cash"

\* The body handleCheckout passes to api.createOrder, built from the table
\* and the cart of the render it was called in and the payment methods the
\* collaborator returned.
createOrderItems(cart) ==
  [i \in 1..Len(cart) |->
     [menuItemId |-> cart[i].menuItem,
      quantity |-> cart[i].quantity,
      specialInstructions |-> cart[i].specialInstructions]]

createOrderPayload(tbl, cart, methods) ==
  [tableId |-> tbl.id,
   items |-> createOrderItems(cart),
   paymentMethod |-> defaultMethod(methods)]

PaymentIds == {"pay-1"}

(***************************************************************************)
(* The QR code's URL parameters and the Table the Menu page builds of them.*)
(***************************************************************************)
NoParams == [tableId |-> "", tableNumber |-> ""]
UrlParams ==
  { NoParams,
    [tableId |-> "t1", tableNumber |-> ""] }

\* The query string of another table's QR code, opened during the session
\* (once opened, opening it again is the same table scanned again).
TableUrls == { [tableId |-> "t2", tableNumber |-> "7"] }

tableData(params) ==
  [id |-> params.tableId,
   tableNumber |-> IF params.tableNumber = "" THEN "Unknown" ELSE params.tableNumber]

(***************************************************************************)
(* The receipt field's text, a sequence of characters, and String.trim.    *)
(***************************************************************************)
ReceiptInputs == { <<>>, <<" ">>, <<" ", "r">> }

RECURSIVE trimStart(_)
trimStart(s) ==
  IF s # <<>> /\ Head(s) = " " THEN trimStart(Tail(s)) ELSE s

RECURSIVE trimEnd(_)
trimEnd(s) ==
  IF s # <<>> /\ s[Len(s)] = " " THEN trimEnd(SubSeq(s, 1, Len(s) - 1)) ELSE s

trimNothing(s) == s

trim(s) == trimEnd(trimStart(s))

Routes == {"menu", "cart", "payment", "status"}

VARIABLES
  \* OrderProvider (session context)
  table, cartItems, currentOrder, paymentMethods, selectedPaymentMethod,
  \* router: the mounted page, location.state.orderId, the URL's table
  \* parameters, and whether the mounted page's useEffect has yet to run
  route, locOrderId, urlTable, pendingEffect,
  \* Cart page state
  cartLoading, cartError,
  \* Payment page state
  payLoading, payError, paymentInitiated, paymentId, receiptUrl, uploading,
  \* requests awaiting the collaborator's answer, each with the values its
  \* handler closed over; the orders the collaborator has created
  inflight, srvOrders,
  \* OrderStatus page state: order (the held snapshot), loading, error, isPolling;
  \* whether its interval is set; its getOrderById requests in flight
  stOrder, stLoading, stError, isPolling, polling, refreshes,
  \* history: checkouts started, clearCart calls, loadOrder calls, which
  \* loadOrder call the held snapshot answers, the last step taken
  nCheckouts, cartClears, nLoads, heldSeq, lastResponse, ev

ctxVars == <<table, cartItems, currentOrder, paymentMethods, selectedPaymentMethod>>
routeVars == <<route, locOrderId, urlTable, pendingEffect>>
cartLocals == <<cartLoading, cartError>>
payLocals == <<payLoading, payError, paymentInitiated, paymentId, receiptUrl, uploading>>
netVars == <<inflight, srvOrders>>
flowVars == <<routeVars, cartLocals, payLocals, netVars, nCheckouts, cartClears>>
trackerVars == <<stOrder, stLoading, stError, isPolling, polling, refreshes, nLoads, heldSeq,
                 lastResponse>>
vars == <<ctxVars, flowVars, trackerVars, ev>>

Event(op, live) == [op |-> op, live |-> live]

\* A step of the Menu, Cart or Payment page or of the cart API: the
\* OrderStatus page is not mounted and nothing of it changes.
Step(op, live) == ev' = Event(op, live) /\ UNCHANGED trackerVars

Init ==
  /\ table = NoTable
  /\ cartItems = <<>>
  /\ currentOrder = NoOrder
  /\ paymentMethods = <<>>
  /\ selectedPaymentMethod = NoMethod
  /\ route \in Routes
  /\ locOrderId = NoOrderId
  /\ urlTable \in (IF route = "menu" THEN UrlParams ELSE {NoParams})
  /\ pendingEffect = TRUE
  /\ cartLoading = FALSE
  /\ cartError = NoError
  /\ payLoading = FALSE
  /\ payError = NoError
  /\ paymentInitiated = FALSE
  /\ paymentId = NoPaymentId
  /\ receiptUrl = <<>>
  /\ uploading = FALSE
  /\ inflight = EmptyBag
  /\ srvOrders = <<>>
  /\ nCheckouts = 0
  /\ cartClears = 0
  /\ stOrder = NoOrder
  /\ stLoading = TRUE
  /\ stError = NoError
  /\ isPolling = FALSE
  /\ polling = FALSE
  /\ refreshes = {}
  /\ nLoads = 0
  /\ heldSeq = 0
  /\ lastResponse = NoOrder
  /\ ev = Event("init", TRUE)

(***************************************************************************)
(* useContext(OrderContext) and useOrder.  A component under the provider  *)
(* reads the provider's value; one outside it reads createContext's        *)
(* default, undefined.  A throw is the record Thrown, a return the record  *)
(* [returned |-> value].                                                   *)
(***************************************************************************)
Undefined == [provided |-> FALSE]

ProviderValue ==
  [provided |-> TRUE, table |-> table, cartItems |-> cartItems,
   currentOrder |-> currentOrder, paymentMethods |-> paymentMethods,
   selectedPaymentMethod |-> selectedPaymentMethod]

InitialProviderValue ==
  [provided |-> TRUE, table |-> NoTable, cartItems |-> <<>>,
   currentOrder |-> NoOrder, paymentMethods |-> <<>>,
   selectedPaymentMethod |-> NoMethod]

Thrown == [thrown |-> "useOrder must be used within an OrderProvider"]

useOrderDefaultsToEmpty(context) ==
  IF context = Undefined
  THEN [returned |-> InitialProviderValue]
  ELSE [returned |-> context]

useOrder(context) ==
  IF context = Undefined
  THEN Thrown
  ELSE [returned |-> context]

(***************************************************************************)
(* SpecCart: the context's cart operations, called with any arguments.     *)
(***************************************************************************)
QtyInBounds(cart) ==
  \A i \in 1..Len(cart) : cart[i].quantity \in (0 - MaxCallQty) .. MaxCallQty

CallAddToCart ==
  \E item \in MenuItemIds, q \in QuantityArgs :
    /\ QtyInBounds(addToCart(cartItems, item, q))
    /\ cartItems' = addToCart(cartItems, item, q)
    /\ Step("addToCart", TRUE)
    /\ UNCHANGED <<table, currentOrder, paymentMethods, selectedPaymentMethod, flowVars>>

CallRemoveFromCart ==
  \E item \in MenuItemIds :
    /\ cartItems' = removeFromCart(cartItems, item)
    /\ Step("removeFromCart", TRUE)
    /\ UNCHANGED <<table, currentOrder, paymentMethods, selectedPaymentMethod, flowVars>>

CallUpdateCartItemQuantity ==
  \E item \in MenuItemIds, q \in QuantityArgs :
    /\ cartItems' = updateCartItemQuantity(cartItems, item, q)
    /\ Step("updateCartItemQuantity", TRUE)
    /\ UNCHANGED <<table, currentOrder, paymentMethods, selectedPaymentMethod, flowVars>>

CallUpdateCartItemInstructions ==
  \E item \in MenuItemIds, n \in Notes :
    /\ cartItems' = updateCartItemInstructions(cartItems, item, n)
    /\ Step("updateCartItemInstructions", TRUE)
    /\ UNCHANGED <<table, currentOrder, paymentMethods, selectedPaymentMethod, flowVars>>

CallClearCartDropsFirst ==
  /\ cartItems' = IF cartItems = <<>> THEN <<>> ELSE Tail(cartItems)
  /\ Step("clearCart", TRUE)
  /\ UNCHANGED <<table, currentOrder, paymentMethods, selectedPaymentMethod, flowVars>>

CallClearCartEndsSession ==
  /\ cartItems' = clearCart
  /\ currentOrder' = NoOrder
  /\ selectedPaymentMethod' = NoMethod
  /\ Step("clearCart", TRUE)
  /\ UNCHANGED <<table, paymentMethods, flowVars>>

CallClearCart ==
  /\ cartItems' = clearCart
  /\ Step("clearCart", TRUE)
  /\ UNCHANGED <<table, currentOrder, paymentMethods, selectedPaymentMethod, flowVars>>

\* getCartTotal() reads cartItems and returns the sum; it calls no setter.
CallGetCartTotal ==
  /\ getCartTotal(cartItems) \in Int
  /\ Step("getCartTotal", TRUE)
  /\ UNCHANGED <<ctxVars, flowVars>>

NextCart ==
  \/ CallAddToCart
  \/ CallRemoveFromCart
  \/ CallUpdateCartItemQuantity
  \/ CallUpdateCartItemInstructions
  \/ CallClearCart
  \/ CallGetCartTotal

\* The cart operations are called in a session just entered, or in one
\* that is back on the menu with an order placed, the payment methods
\* loaded and one of them selected.
InitCart ==
  \/ Init
  \/ /\ table = tableData([tableId |-> "t1", tableNumber |-> ""])
     /\ cartItems = <<>>
     /\ currentOrder = [id |-> 1, status |-> "pending", paymentMethod |-> "cash"]
     /\ paymentMethods = <<mTransfer, mCash>>
     /\ selectedPaymentMethod = mTransfer
     /\ route = "menu"
     /\ locOrderId = NoOrderId
     /\ urlTable = NoParams
     /\ pendingEffect = FALSE
     /\ cartLoading = FALSE
     /\ cartError = NoError
     /\ payLoading = FALSE
     /\ payError = NoError
     /\ paymentInitiated = FALSE
     /\ paymentId = NoPaymentId
     /\ receiptUrl = <<>>
     /\ uploading = FALSE
     /\ inflight = EmptyBag
     /\ srvOrders = <<currentOrder>>
     /\ nCheckouts = 1
     /\ cartClears = 1
     /\ stOrder = NoOrder
     /\ stLoading = TRUE
     /\ stError = NoError
     /\ isPolling = FALSE
     /\ polling = FALSE
     /\ refreshes = {}
     /\ nLoads = 0
     /\ heldSeq = 0
     /\ lastResponse = NoOrder
     /\ ev = Event("init", TRUE)

SpecCart == InitCart /\ [][NextCart]_vars

(***************************************************************************)
(* Requests in flight.  A request keeps what the handler that awaits it    *)
(* closed over at the render it was called from; live says whether the     *)
(* page instance that issued it is still mounted (React drops the state    *)
(* updates of an unmounted component; context setters and navigate still   *)
(* act).                                                                   *)
(***************************************************************************)
Request(kind, cart, tbl, method, orderId, payId, receipt) ==
  [kind |-> kind, live |-> TRUE, cart |-> cart, table |-> tbl, method |-> method,
   orderId |-> orderId, paymentId |-> payId, receiptUrl |-> receipt]

Owner(kind) ==
  IF kind \in {"initiatePayment", "uploadTransferReceipt"} THEN "payment" ELSE "cart"

Pending(kind) == { r \in BagToSet(inflight) : r.kind = kind }

Issue(bag, r) == bag (+) SetToBag({r})
Answer(bag, r) == bag (-) SetToBag({r})
CanIssue == BagCardinality(inflight) < MaxInFlight

\* The requests of the page being unmounted lose their component.
Unmounted(bag, page) ==
  LET stale(r) == IF Owner(r.kind) = page THEN [r EXCEPT !.live = FALSE] ELSE r
      copies(x) == IF x \in BagToSet(bag) THEN bag[x] ELSE 0
      T == { stale(r) : r \in BagToSet(bag) }
  IN [x \in T |->
        copies(x) + (IF Owner(x.kind) = page /\ ~x.live
                     THEN copies([x EXCEPT !.live = TRUE]) ELSE 0)]

AfterNavigate(bag, to) == IF route = to THEN bag ELSE Unmounted(bag, route)

\* location.state?.orderId || currentOrder?.id
OrderId == IF locOrderId # NoOrderId THEN locOrderId ELSE currentOrder.id

\* navigate(to, { state: { orderId } }): the page of another route is
\* unmounted and its useState slots are gone; the page of `to` mounts (or
\* re-renders) and its effect is scheduled.
NavigateUrl(to, orderId, params) ==
  /\ route' = to
  /\ locOrderId' = orderId
  /\ urlTable' = params
  /\ pendingEffect' = TRUE
  /\ IF route = "cart" /\ to # "cart"
     THEN cartLoading' = FALSE /\ cartError' = NoError
     ELSE UNCHANGED cartLocals
  /\ IF route = "payment" /\ to # "payment"
     THEN /\ payLoading' = FALSE /\ payError' = NoError
          /\ paymentInitiated' = FALSE /\ paymentId' = NoPaymentId
          /\ receiptUrl' = <<>> /\ uploading' = FALSE
     ELSE UNCHANGED payLocals

\* The app's own navigate calls carry no query string.
Navigate(to, orderId) == NavigateUrl(to, orderId, NoParams)

\* A user acts on the page of `page` once it is mounted and its effect ran.
Shown(page) == route = page /\ ~pendingEffect

(***************************************************************************)
(* Menu page.                                                              *)
(***************************************************************************)
getItemQuantity(itemId) ==
  IF HasLine(cartItems, itemId)
  THEN (CHOOSE ci \in { cartItems[i] : i \in 1..Len(cartItems) } :
          ci.menuItem = itemId).quantity
  ELSE 0

\* useEffect([searchParams]): the table comes from the URL parameters, or
\* stays what the session holds.  With neither, the page shows an error
\* whose Retry button loads the menu all the same, the table still unset.
MenuEffectNewTableNewCart ==
  /\ route = "menu" /\ pendingEffect
  /\ table' = IF urlTable.tableId # "" THEN tableData(urlTable) ELSE table
  /\ cartItems' = IF urlTable.tableId # "" THEN <<>> ELSE cartItems
  /\ pendingEffect' = FALSE
  /\ Step("menu_effect", TRUE)
  /\ UNCHANGED <<currentOrder, paymentMethods, selectedPaymentMethod,
                 route, locOrderId, urlTable, cartLocals, payLocals, netVars,
                 nCheckouts, cartClears>>

MenuEffect ==
  /\ route = "menu" /\ pendingEffect
  /\ table' = IF urlTable.tableId # "" THEN tableData(urlTable) ELSE table
  /\ pendingEffect' = FALSE
  /\ Step("menu_effect", TRUE)
  /\ UNCHANGED <<cartItems, currentOrder, paymentMethods, selectedPaymentMethod,
                 route, locOrderId, urlTable, cartLocals, payLocals, netVars,
                 nCheckouts, cartClears>>

\* The "Add" button of an item not in the cart: handleAddToCart.
MenuAdd ==
  \E item \in DisplayedItems :
    /\ Shown("menu")
    /\ getItemQuantity(item) = 0
    /\ cartItems' = addToCart(cartItems, item, 1)
    /\ Step("menu_add", TRUE)
    /\ UNCHANGED <<table, currentOrder, paymentMethods, selectedPaymentMethod, flowVars>>

\* The +/- buttons of an item in the cart: handleQuantityChange.
MenuQuantityChange ==
  \E item \in DisplayedItems, delta \in {0 - 1, 1} :
    LET currentQty == getItemQuantity(item)
        newQty == IF currentQty + delta > 0 THEN currentQty + delta ELSE 0
    IN /\ Shown("menu")
       /\ currentQty # 0
       /\ newQty <= MaxQty
       /\ cartItems' = updateCartItemQuantity(cartItems, item, newQty)
       /\ Step("menu_qty", TRUE)
       /\ UNCHANGED <<table, currentOrder, paymentMethods, selectedPaymentMethod, flowVars>>

MenuGoCart ==
  /\ Shown("menu")
  /\ Navigate("cart", NoOrderId)
  /\ inflight' = AfterNavigate(inflight, "cart")
  /\ Step("menu_go_cart", TRUE)
  /\ UNCHANGED <<ctxVars, srvOrders, nCheckouts, cartClears>>

(***************************************************************************)
(* Cart page.                                                              *)
(***************************************************************************)
\* useEffect([table, navigate]): without a table go home, else load the
\* payment methods.
CartEffect ==
  /\ route = "cart" /\ pendingEffect
  /\ IF table = NoTable
     THEN /\ Navigate("menu", NoOrderId)
          /\ inflight' = AfterNavigate(inflight, "menu")
     ELSE /\ CanIssue
          /\ inflight' = Issue(inflight,
               Request("loadPaymentMethods", <<>>, NoTable, "", NoOrderId, NoPaymentId, <<>>))
          /\ pendingEffect' = FALSE
          /\ UNCHANGED <<route, locOrderId, urlTable, cartLocals, payLocals>>
  /\ Step("cart_effect", TRUE)
  /\ UNCHANGED <<ctxVars, srvOrders, nCheckouts, cartClears>>

\* loadPaymentMethods, answered.
PaymentMethodsLoaded ==
  \E r \in Pending("loadPaymentMethods"), methods \in PaymentMethodResponses :
    /\ paymentMethods' = filterActive(methods)
    /\ inflight' = Answer(inflight, r)
    /\ Step("methods_loaded", r.live)
    /\ UNCHANGED <<table, cartItems, currentOrder, selectedPaymentMethod,
                   routeVars, cartLocals, payLocals, srvOrders, nCheckouts, cartClears>>

PaymentMethodsFailed ==
  \E r \in Pending("loadPaymentMethods") :
    /\ inflight' = Answer(inflight, r)
    /\ Step("methods_failed", r.live)
    /\ UNCHANGED <<ctxVars, routeVars, cartLocals, payLocals, srvOrders,
                   nCheckouts, cartClears>>

CartQuantity ==
  \E i \in 1..Len(cartItems), delta \in {0 - 1, 1} :
    /\ Shown("cart")
    /\ cartItems[i].quantity + delta <= MaxQty
    /\ cartItems' = updateCartItemQuantity(cartItems, cartItems[i].menuItem,
                                           cartItems[i].quantity + delta)
    /\ Step("cart_qty", TRUE)
    /\ UNCHANGED <<table, currentOrder, paymentMethods, selectedPaymentMethod, flowVars>>

CartRemove ==
  \E i \in 1..Len(cartItems) :
    /\ Shown("cart")
    /\ cartItems' = removeFromCart(cartItems, cartItems[i].menuItem)
    /\ Step("cart_remove", TRUE)
    /\ UNCHANGED <<table, currentOrder, paymentMethods, selectedPaymentMethod, flowVars>>

CartInstructions ==
  \E i \in 1..Len(cartItems), text \in Notes :
    /\ Shown("cart")
    /\ cartItems' = updateCartItemInstructions(cartItems, cartItems[i].menuItem, text)
    /\ Step("cart_note", TRUE)
    /\ UNCHANGED <<table, currentOrder, paymentMethods, selectedPaymentMethod, flowVars>>

CartBackToMenu ==
  /\ Shown("cart")
  /\ Navigate("menu", NoOrderId)
  /\ inflight' = AfterNavigate(inflight, "menu")
  /\ Step("cart_back", TRUE)
  /\ UNCHANGED <<ctxVars, srvOrders, nCheckouts, cartClears>>

handleCheckoutNoGuard ==
  /\ nCheckouts < MaxCheckouts
  /\ CanIssue
  /\ cartLoading' = TRUE
  /\ cartError' = NoError
  /\ inflight' = Issue(inflight,
       Request("getPaymentMethods", cartItems, table, "", NoOrderId, NoPaymentId, <<>>))
  /\ nCheckouts' = nCheckouts + 1
  /\ Step("checkout_click", TRUE)
  /\ UNCHANGED <<ctxVars, routeVars, payLocals, srvOrders, cartClears>>

\* handleCheckout up to its first await.
handleCheckout ==
  IF cartItems = <<>>
  THEN /\ Step("checkout_empty", TRUE)
       /\ UNCHANGED <<ctxVars, flowVars>>
  ELSE /\ nCheckouts < MaxCheckouts
       /\ CanIssue
       /\ cartLoading' = TRUE
       /\ cartError' = NoError
       /\ inflight' = Issue(inflight,
            Request("getPaymentMethods", cartItems, table, "", NoOrderId, NoPaymentId, <<>>))
       /\ nCheckouts' = nCheckouts + 1
       /\ Step("checkout_click", TRUE)
       /\ UNCHANGED <<ctxVars, routeVars, payLocals, srvOrders, cartClears>>

\* The "Proceed to Payment" button: rendered for a non-empty cart, disabled
\* while loading.
ClickCheckout ==
  /\ Shown("cart")
  /\ cartItems # <<>>
  /\ ~cartLoading
  /\ handleCheckout

checkoutCatchClearsCart(r, message) ==
  /\ IF r.live
     THEN cartError' = message /\ cartLoading' = FALSE
     ELSE UNCHANGED cartLocals
  /\ cartItems' = clearCart
  /\ inflight' = Answer(inflight, r)
  /\ Step("checkout_failed", r.live)
  /\ UNCHANGED <<table, currentOrder, paymentMethods, selectedPaymentMethod,
                 routeVars, payLocals, srvOrders, nCheckouts, cartClears>>

\* catch (err) { setError(...) } finally { setLoading(false) }
checkoutCatch(r, message) ==
  /\ IF r.live
     THEN cartError' = message /\ cartLoading' = FALSE
     ELSE UNCHANGED cartLocals
  /\ inflight' = Answer(inflight, r)
  /\ Step("checkout_failed", r.live)
  /\ UNCHANGED <<ctxVars, routeVars, payLocals, srvOrders, nCheckouts, cartClears>>

\* api.getPaymentMethods() resolved inside handleCheckout: createOrder is
\* called with table!.id, which throws when the table is null.
CheckoutMethodsLoaded ==
  \E r \in Pending("getPaymentMethods"), methods \in PaymentMethodResponses :
    IF r.table = NoTable
    THEN checkoutCatch(r, "Cannot read properties of null (reading 'id')")
    ELSE /\ inflight' = Issue(Answer(inflight, r),
              [r EXCEPT !.kind = "createOrder", !.method = defaultMethod(methods)])
         /\ Step("checkout_methods_ok", r.live)
         /\ UNCHANGED <<ctxVars, routeVars, cartLocals, payLocals, srvOrders,
                        nCheckouts, cartClears>>

CheckoutMethodsFailed ==
  \E r \in Pending("getPaymentMethods") :
    checkoutCatch(r, "Failed to create order")

CreateOrderOkKeepsCart ==
  \E r \in Pending("createOrder") :
    LET order == [id |-> Len(srvOrders) + 1, status |-> "pending",
                  paymentMethod |-> r.method]
    IN /\ srvOrders' = Append(srvOrders, order)
       /\ currentOrder' = order
       /\ Navigate("payment", order.id)
       /\ inflight' = AfterNavigate(Answer(inflight, r), "payment")
       /\ Step("checkout_ok", r.live)
       /\ UNCHANGED <<table, cartItems, paymentMethods, selectedPaymentMethod,
                      nCheckouts, cartClears>>

\* api.createOrder resolved: setCurrentOrder(order); clearCart();
\* navigate('/payment', { state: { orderId: order.id } }).
CreateOrderOk ==
  \E r \in Pending("createOrder") :
    LET order == [id |-> Len(srvOrders) + 1, status |-> "pending",
                  paymentMethod |-> r.method]
    IN /\ srvOrders' = Append(srvOrders, order)
       /\ currentOrder' = order
       /\ cartItems' = clearCart
       /\ cartClears' = cartClears + 1
       /\ Navigate("payment", order.id)
       /\ inflight' = AfterNavigate(Answer(inflight, r), "payment")
       /\ Step("checkout_ok", r.live)
       /\ UNCHANGED <<table, paymentMethods, selectedPaymentMethod, nCheckouts>>

CreateOrderFailed ==
  \E r \in Pending("createOrder") :
    checkoutCatch(r, "Failed to create order")

(***************************************************************************)
(* Payment page.                                                           *)
(***************************************************************************)
\* useEffect([orderId, currentOrder, navigate]).  Its loadOrder branch needs
\* an order id without a current order, which no step of this model leaves.
PaymentEffect ==
  /\ route = "payment" /\ pendingEffect
  /\ IF OrderId = NoOrderId
     THEN /\ Navigate("menu", NoOrderId)
          /\ inflight' = AfterNavigate(inflight, "menu")
     ELSE /\ pendingEffect' = FALSE
          /\ UNCHANGED <<route, locOrderId, urlTable, cartLocals, payLocals, inflight>>
  /\ Step("payment_effect", TRUE)
  /\ UNCHANGED <<ctxVars, srvOrders, nCheckouts, cartClears>>

\* The page renders its controls only with a current order.
PaymentShown == Shown("payment") /\ currentOrder # NoOrder

SelectPaymentMethod ==
  \E i \in 1..Len(paymentMethods) :
    /\ PaymentShown
    /\ ~paymentInitiated
    /\ selectedPaymentMethod' = paymentMethods[i]
    /\ Step("select_method", TRUE)
    /\ UNCHANGED <<table, cartItems, currentOrder, paymentMethods, flowVars>>

handleInitiatePaymentResubmits ==
  /\ selectedPaymentMethod # NoMethod /\ OrderId # NoOrderId
  /\ CanIssue
  /\ payLoading' = TRUE
  /\ payError' = NoError
  /\ inflight' = Issue(inflight,
       IF payError # NoError
       THEN Request("createOrder", cartItems, table, selectedPaymentMethod.type,
                    NoOrderId, NoPaymentId, <<>>)
       ELSE Request("initiatePayment", <<>>, NoTable, selectedPaymentMethod.type,
                    OrderId, NoPaymentId, <<>>))
  /\ Step(IF payError # NoError THEN "initiate_retry" ELSE "initiate_click", TRUE)
  /\ UNCHANGED <<ctxVars, routeVars, cartLocals, paymentInitiated, paymentId,
                 receiptUrl, uploading, srvOrders, nCheckouts, cartClears>>

\* handleInitiatePayment up to its await.
handleInitiatePayment ==
  IF selectedPaymentMethod = NoMethod \/ OrderId = NoOrderId
  THEN /\ Step("initiate_ignored", TRUE)
       /\ UNCHANGED <<ctxVars, flowVars>>
  ELSE /\ CanIssue
       /\ payLoading' = TRUE
       /\ payError' = NoError
       /\ inflight' = Issue(inflight,
            Request("initiatePayment", <<>>, NoTable, selectedPaymentMethod.type,
                    OrderId, NoPaymentId, <<>>))
       /\ Step(IF payError # NoError THEN "initiate_retry" ELSE "initiate_click", TRUE)
       /\ UNCHANGED <<ctxVars, routeVars, cartLocals, paymentInitiated, paymentId,
                      receiptUrl, uploading, srvOrders, nCheckouts, cartClears>>

\* "Proceed with Payment": rendered before initiation, disabled while
\* loading or without a selection.
ClickInitiatePayment ==
  /\ PaymentShown
  /\ ~paymentInitiated
  /\ ~payLoading
  /\ selectedPaymentMethod # NoMethod
  /\ handleInitiatePayment

InitiateOkTag(method) ==
  IF method = "transfer" THEN "initiate_ok_transfer"
  ELSE IF method = "pos" THEN "initiate_ok_pos" ELSE "initiate_ok_cash"

InitiatePaymentOkAlwaysAwaits ==
  \E r \in Pending("initiatePayment"), pid \in PaymentIds :
    /\ IF r.live
       THEN /\ paymentId' = pid
            /\ paymentInitiated' = TRUE
            /\ payLoading' = FALSE
            /\ UNCHANGED <<payError, receiptUrl, uploading>>
       ELSE UNCHANGED payLocals
    /\ inflight' = Answer(inflight, r)
    /\ Step(InitiateOkTag(r.method), r.live)
    /\ UNCHANGED <<ctxVars, routeVars, cartLocals, srvOrders, nCheckouts, cartClears>>

\* api.initiatePayment resolved.
InitiatePaymentOk ==
  \E r \in Pending("initiatePayment"), pid \in PaymentIds :
    IF r.method = "transfer"
    THEN /\ IF r.live
            THEN /\ paymentId' = pid
                 /\ paymentInitiated' = TRUE
                 /\ payLoading' = FALSE
                 /\ UNCHANGED <<payError, receiptUrl, uploading>>
            ELSE UNCHANGED payLocals
         /\ inflight' = Answer(inflight, r)
         /\ Step(InitiateOkTag(r.method), r.live)
         /\ UNCHANGED <<ctxVars, routeVars, cartLocals, srvOrders, nCheckouts, cartClears>>
    ELSE /\ Navigate("status", r.orderId)
         /\ inflight' = AfterNavigate(Answer(inflight, r), "status")
         /\ Step(InitiateOkTag(r.method), r.live)
         /\ UNCHANGED <<ctxVars, srvOrders, nCheckouts, cartClears>>

InitiatePaymentFailed ==
  \E r \in Pending("initiatePayment") :
    /\ IF r.live
       THEN /\ payError' = "Failed to initiate payment"
            /\ payLoading' = FALSE
            /\ UNCHANGED <<paymentInitiated, paymentId, receiptUrl, uploading>>
       ELSE UNCHANGED payLocals
    /\ inflight' = Answer(inflight, r)
    /\ Step("initiate_failed", r.live)
    /\ UNCHANGED <<ctxVars, routeVars, cartLocals, srvOrders, nCheckouts, cartClears>>

\* The receipt URL field of the awaiting-receipt view.
SetReceiptUrl ==
  \E text \in ReceiptInputs :
    /\ PaymentShown
    /\ paymentInitiated
    /\ receiptUrl' = text
    /\ Step("receipt_input", TRUE)
    /\ UNCHANGED <<ctxVars, routeVars, cartLocals, payLoading, payError,
                   paymentInitiated, paymentId, uploading, netVars, nCheckouts, cartClears>>

handleUploadReceiptNoGuard ==
  /\ CanIssue
  /\ uploading' = TRUE
  /\ payError' = NoError
  /\ inflight' = Issue(inflight,
       Request("uploadTransferReceipt", <<>>, NoTable, "", OrderId, paymentId,
               receiptUrl))
  /\ Step(IF payError # NoError THEN "upload_retry" ELSE "upload_click", TRUE)
  /\ UNCHANGED <<ctxVars, routeVars, cartLocals, payLoading, paymentInitiated,
                 paymentId, receiptUrl, srvOrders, nCheckouts, cartClears>>

\* handleUploadReceipt up to its await.
handleUploadReceipt ==
  IF trim(receiptUrl) = <<>> \/ paymentId = NoPaymentId
  THEN /\ Step("upload_ignored", TRUE)
       /\ UNCHANGED <<ctxVars, flowVars>>
  ELSE /\ CanIssue
       /\ uploading' = TRUE
       /\ payError' = NoError
       /\ inflight' = Issue(inflight,
            Request("uploadTransferReceipt", <<>>, NoTable, "", OrderId, paymentId,
                    receiptUrl))
       /\ Step(IF payError # NoError THEN "upload_retry" ELSE "upload_click", TRUE)
       /\ UNCHANGED <<ctxVars, routeVars, cartLocals, payLoading, paymentInitiated,
                      paymentId, receiptUrl, srvOrders, nCheckouts, cartClears>>

\* "Upload Receipt": rendered once payment is initiated, disabled while
\* uploading or with a blank field.
ClickUploadReceipt ==
  /\ PaymentShown
  /\ paymentInitiated
  /\ ~uploading
  /\ trim(receiptUrl) # <<>>
  /\ handleUploadReceipt

UploadReceiptOk ==
  \E r \in Pending("uploadTransferReceipt") :
    /\ Navigate("status", r.orderId)
    /\ inflight' = AfterNavigate(Answer(inflight, r), "status")
    /\ Step("upload_ok", r.live)
    /\ UNCHANGED <<ctxVars, srvOrders, nCheckouts, cartClears>>

UploadReceiptFailedNavigates ==
  \E r \in Pending("uploadTransferReceipt") :
    /\ Navigate("status", r.orderId)
    /\ inflight' = AfterNavigate(Answer(inflight, r), "status")
    /\ Step("upload_failed", r.live)
    /\ UNCHANGED <<ctxVars, srvOrders, nCheckouts, cartClears>>

UploadReceiptFailedForgetsPayment ==
  \E r \in Pending("uploadTransferReceipt") :
    /\ IF r.live
       THEN /\ payError' = "Failed to upload receipt"
            /\ uploading' = FALSE
            /\ paymentInitiated' = FALSE
            /\ paymentId' = NoPaymentId
            /\ UNCHANGED <<payLoading, receiptUrl>>
       ELSE UNCHANGED payLocals
    /\ inflight' = Answer(inflight, r)
    /\ Step("upload_failed", r.live)
    /\ UNCHANGED <<ctxVars, routeVars, cartLocals, srvOrders, nCheckouts, cartClears>>

UploadReceiptFailed ==
  \E r \in Pending("uploadTransferReceipt") :
    /\ IF r.live
       THEN /\ payError' = "Failed to upload receipt"
            /\ uploading' = FALSE
            /\ UNCHANGED <<payLoading, paymentInitiated, paymentId, receiptUrl>>
       ELSE UNCHANGED payLocals
    /\ inflight' = Answer(inflight, r)
    /\ Step("upload_failed", r.live)
    /\ UNCHANGED <<ctxVars, routeVars, cartLocals, srvOrders, nCheckouts, cartClears>>

PaymentBack ==
  /\ PaymentShown
  /\ Navigate("cart", NoOrderId)
  /\ inflight' = AfterNavigate(inflight, "cart")
  /\ Step("payment_back", TRUE)
  /\ UNCHANGED <<ctxVars, srvOrders, nCheckouts, cartClears>>

(***************************************************************************)
(* Order status page: its guard and its two ways out.                      *)
(***************************************************************************)
StatusEffect ==
  /\ route = "status" /\ pendingEffect
  /\ IF OrderId = NoOrderId
     THEN /\ Navigate("menu", NoOrderId)
          /\ inflight' = AfterNavigate(inflight, "menu")
     ELSE /\ pendingEffect' = FALSE
          /\ UNCHANGED <<route, locOrderId, urlTable, cartLocals, payLocals, inflight>>
  /\ Step("status_effect", TRUE)
  /\ UNCHANGED <<ctxVars, srvOrders, nCheckouts, cartClears>>

StatusOrderAgain ==
  /\ Shown("status")
  /\ Navigate("menu", NoOrderId)
  /\ inflight' = AfterNavigate(inflight, "menu")
  /\ Step("status_order_again", TRUE)
  /\ UNCHANGED <<ctxVars, srvOrders, nCheckouts, cartClears>>

StatusHome ==
  /\ Shown("status")
  /\ Navigate("menu", NoOrderId)
  /\ inflight' = AfterNavigate(inflight, "menu")
  /\ Step("status_home", TRUE)
  /\ UNCHANGED <<ctxVars, srvOrders, nCheckouts, cartClears>>

Next ==
  \/ MenuEffect \/ MenuAdd \/ MenuQuantityChange \/ MenuGoCart
  \/ CartEffect \/ PaymentMethodsLoaded \/ PaymentMethodsFailed
  \/ CartQuantity \/ CartRemove \/ CartInstructions \/ CartBackToMenu
  \/ ClickCheckout \/ CheckoutMethodsLoaded \/ CheckoutMethodsFailed
  \/ CreateOrderOk \/ CreateOrderFailed
  \/ PaymentEffect \/ SelectPaymentMethod \/ ClickInitiatePayment
  \/ InitiatePaymentOk \/ InitiatePaymentFailed
  \/ SetReceiptUrl \/ ClickUploadReceipt \/ UploadReceiptOk \/ UploadReceiptFailed
  \/ PaymentBack
  \/ StatusEffect \/ StatusOrderAgain \/ StatusHome

Spec == Init /\ [][Next]_vars

(***************************************************************************)
(* SpecSilent: the flow with what the runtime is bound to do: React runs   *)
(* a mounted page's pending effect.  Nothing obliges the collaborator to   *)
(* answer or the user to act, and fetchApi sets no timer on a request.     *)
(***************************************************************************)
SpecSilent ==
  /\ Init
  /\ [][Next]_vars
  /\ WF_vars(MenuEffect) /\ WF_vars(CartEffect)
  /\ WF_vars(PaymentEffect) /\ WF_vars(StatusEffect)

(***************************************************************************)
(* SpecScan: the flow, with the router's location also changing, during    *)
(* the session, to a menu URL that carries a table's QR parameters: Menu   *)
(* re-renders with new searchParams and its effect runs again.             *)
(***************************************************************************)
OpenTableUrl ==
  \E params \in TableUrls :
    /\ NavigateUrl("menu", NoOrderId, params)
    /\ inflight' = AfterNavigate(inflight, "menu")
    /\ Step("open_table_url", TRUE)
    /\ UNCHANGED <<ctxVars, srvOrders, nCheckouts, cartClears>>

NextScan == Next \/ OpenTableUrl

SpecScan == Init /\ [][NextScan]_vars

(***************************************************************************)
(* SpecCalls: the handlers invoked directly on a mounted page, whatever    *)
(* is rendered and whether or not the page's effect has run yet.           *)
(***************************************************************************)
CallHandleCheckout == route = "cart" /\ handleCheckout

CallHandleUploadReceipt == route = "payment" /\ handleUploadReceipt

NextCalls == Next \/ CallHandleCheckout \/ CallHandleUploadReceipt

SpecCalls == Init /\ [][NextCalls]_vars

(***************************************************************************)
(* SpecTracker: the OrderStatus page.  The collaborator may answer         *)
(* GET /orders/:id with the order in any status, or fail.                  *)
(***************************************************************************)
Statuses == {"pending", "accepted", "preparing", "ready", "completed", "rejected"}

\* The steps of the progress timeline, in the order they are listed.
TimelineSteps == <<"pending", "accepted", "preparing", "ready", "completed">>
StepSet == { TimelineSteps[i] : i \in 1..Len(TimelineSteps) }

StepIndex(status) ==
  IF status \in StepSet
  THEN CHOOSE i \in 1..Len(TimelineSteps) : TimelineSteps[i] = status
  ELSE 0

isActiveUpTo(step, status) == StepIndex(step) <= StepIndex(status)

\* const isActive = order.status === step.status
isActive(step, status) == status = step

isCompletedStrictlyLater(step, status) == StepIndex(status) > StepIndex(step)

isCompleted(step, status) ==
  \/ step = "pending" /\ status \in {"accepted", "preparing", "ready", "completed"}
  \/ step = "accepted" /\ status \in {"preparing", "ready", "completed"}
  \/ step = "preparing" /\ status \in {"ready", "completed"}
  \/ step = "ready" /\ status = "completed"
  \/ step = "completed" /\ status = "completed"

\* The order a session arrives on /order-status with.
PlacedOrder == [id |-> 1, status |-> "pending", paymentMethod |-> "cash"]

\* The page mounts: location.state.orderId and the context's order may each
\* be there or not (arrival from Payment, reload, a bare URL);
\* useState(currentOrder), useState(true), useState(null), useState(false).
InitTracker ==
  /\ table = NoTable
  /\ cartItems = <<>>
  /\ currentOrder \in {NoOrder, PlacedOrder}
  /\ paymentMethods = <<>>
  /\ selectedPaymentMethod = NoMethod
  /\ route = "status"
  /\ locOrderId \in {NoOrderId, PlacedOrder.id}
  /\ urlTable = NoParams
  /\ pendingEffect = TRUE
  /\ cartLoading = FALSE
  /\ cartError = NoError
  /\ payLoading = FALSE
  /\ payError = NoError
  /\ paymentInitiated = FALSE
  /\ paymentId = NoPaymentId
  /\ receiptUrl = <<>>
  /\ uploading = FALSE
  /\ inflight = EmptyBag
  /\ srvOrders = <<PlacedOrder>>
  /\ nCheckouts = 1
  /\ cartClears = 1
  /\ stOrder = currentOrder
  /\ stLoading = TRUE
  /\ stError = NoError
  /\ isPolling = FALSE
  /\ polling = FALSE
  /\ refreshes = {}
  /\ nLoads = 0
  /\ heldSeq = 0
  /\ lastResponse = NoOrder
  /\ ev = Event("mount", TRUE)

\* loadOrder up to its await.  The effect and the interval call the
\* loadOrder of the render the effect ran after, the first of the mount, in
\* which loading is true: setIsPolling(true) is not reached.
loadOrder ==
  /\ nLoads < MaxLoads
  /\ nLoads' = nLoads + 1
  /\ refreshes' = refreshes \cup {[seq |-> nLoads + 1, orderId |-> OrderId, live |-> TRUE]}
  /\ UNCHANGED isPolling

TrackerLeaveKeepsInterval(op) ==
  /\ Navigate("menu", NoOrderId)
  /\ inflight' = AfterNavigate(inflight, "menu")
  /\ refreshes' = { [r EXCEPT !.live = FALSE] : r \in refreshes }
  /\ stOrder' = NoOrder
  /\ stLoading' = TRUE
  /\ stError' = NoError
  /\ isPolling' = FALSE
  /\ heldSeq' = 0
  /\ ev' = Event(op, TRUE)
  /\ UNCHANGED <<ctxVars, srvOrders, nCheckouts, cartClears, nLoads, polling, lastResponse>>

\* navigate away: the page unmounts, the effect's cleanup clears the
\* interval, the page's state is gone; requests in flight stay in flight.
TrackerLeave(op) ==
  /\ Navigate("menu", NoOrderId)
  /\ inflight' = AfterNavigate(inflight, "menu")
  /\ polling' = FALSE
  /\ refreshes' = { [r EXCEPT !.live = FALSE] : r \in refreshes }
  /\ stOrder' = NoOrder
  /\ stLoading' = TRUE
  /\ stError' = NoError
  /\ isPolling' = FALSE
  /\ heldSeq' = 0
  /\ ev' = Event(op, TRUE)
  /\ UNCHANGED <<ctxVars, srvOrders, nCheckouts, cartClears, nLoads, lastResponse>>

\* useEffect([orderId, navigate]).
OrderStatusEffect ==
  /\ route = "status" /\ pendingEffect
  /\ IF OrderId = NoOrderId
     THEN TrackerLeave("tracker_no_order")
     ELSE /\ loadOrder
          /\ polling' = TRUE
          /\ pendingEffect' = FALSE
          /\ ev' = Event("tracker_effect", TRUE)
          /\ UNCHANGED <<ctxVars, route, locOrderId, urlTable, cartLocals, payLocals,
                         netVars, nCheckouts, cartClears, stOrder, stLoading, stError,
                         heldSeq, lastResponse>>

\* The interval fires: setInterval(loadOrder, 5000).
IntervalTick ==
  /\ polling
  /\ loadOrder
  /\ ev' = Event("tick", TRUE)
  /\ UNCHANGED <<ctxVars, flowVars, stOrder, stLoading, stError, polling, heldSeq,
                 lastResponse>>

\* The payment methods an order can come back with: the one it was placed
\* with, or the one a payment initiated since has recorded.
ResponsePaymentMethods == {PlacedOrder.paymentMethod, "transfer"}

LoadOrderOkMerges ==
  \E r \in refreshes, status \in Statuses, method \in ResponsePaymentMethods :
    LET orderData == [id |-> r.orderId, status |-> status, paymentMethod |-> method]
        merged == IF stOrder = NoOrder THEN orderData
                  ELSE [stOrder EXCEPT !.status = orderData.status]
    IN /\ refreshes' = refreshes \ {r}
       /\ currentOrder' = orderData
       /\ lastResponse' = orderData
       /\ IF r.live
          THEN stOrder' = merged /\ stLoading' = FALSE /\ heldSeq' = r.seq
          ELSE UNCHANGED <<stOrder, stLoading, heldSeq>>
       /\ ev' = Event("refresh_ok", r.live)
       /\ UNCHANGED <<table, cartItems, paymentMethods, selectedPaymentMethod,
                      flowVars, stError, isPolling, polling, nLoads>>

\* api.getOrderById resolved: setOrder(orderData); setCurrentOrder(orderData);
\* finally setLoading(false).  lastResponse records the response.
LoadOrderOk ==
  \E r \in refreshes, status \in Statuses, method \in ResponsePaymentMethods :
    LET orderData == [id |-> r.orderId, status |-> status, paymentMethod |-> method]
    IN /\ refreshes' = refreshes \ {r}
       /\ currentOrder' = orderData
       /\ lastResponse' = orderData
       /\ IF r.live
          THEN stOrder' = orderData /\ stLoading' = FALSE /\ heldSeq' = r.seq
          ELSE UNCHANGED <<stOrder, stLoading, heldSeq>>
       /\ ev' = Event("refresh_ok", r.live)
       /\ UNCHANGED <<table, cartItems, paymentMethods, selectedPaymentMethod,
                      flowVars, stError, isPolling, polling, nLoads>>

LoadOrderFailedDropsOrder ==
  \E r \in refreshes :
    /\ refreshes' = refreshes \ {r}
    /\ IF r.live
       THEN stError' = "Failed to load order" /\ stLoading' = FALSE /\ stOrder' = NoOrder
       ELSE UNCHANGED <<stError, stLoading, stOrder>>
    /\ ev' = Event("refresh_failed", r.live)
    /\ UNCHANGED <<ctxVars, flowVars, isPolling, polling, nLoads, heldSeq, lastResponse>>

\* api.getOrderById rejected: setError(...); finally setLoading(false).
LoadOrderFailed ==
  \E r \in refreshes :
    /\ refreshes' = refreshes \ {r}
    /\ IF r.live
       THEN stError' = "Failed to load order" /\ stLoading' = FALSE
       ELSE UNCHANGED <<stError, stLoading>>
    /\ ev' = Event("refresh_failed", r.live)
    /\ UNCHANGED <<ctxVars, flowVars, stOrder, isPolling, polling, nLoads, heldSeq,
                   lastResponse>>

\* "Order Again" and "Home", rendered with the order.
TrackerOrderAgain ==
  /\ Shown("status") /\ stOrder # NoOrder
  /\ TrackerLeave("status_order_again")

TrackerHome ==
  /\ Shown("status") /\ stOrder # NoOrder
  /\ TrackerLeave("status_home")

\* "Go Home", rendered when there is an error and no order.
TrackerGoHome ==
  /\ Shown("status") /\ stOrder = NoOrder /\ ~stLoading /\ stError # NoError
  /\ TrackerLeave("status_go_home")

NextTracker ==
  \/ OrderStatusEffect \/ IntervalTick \/ LoadOrderOk \/ LoadOrderFailed
  \/ TrackerOrderAgain \/ TrackerHome \/ TrackerGoHome

SpecTracker == InitTracker /\ [][NextTracker]_vars

(***************************************************************************)
(* SpecMonotone: the OrderStatus page against a collaborator whose status  *)
(* for the order only advances.  The collaborator reads the order when it  *)
(* serves a request, at some moment after the request was issued, and the  *)
(* response reaches the page at some later moment.                         *)
(***************************************************************************)
\* The statuses an order can move to from a status.
Advance(status) ==
  CASE status = "pending" -> {"accepted", "rejected"}
    [] status = "accepted" -> {"preparing", "rejected"}
    [] status = "preparing" -> {"ready"}
    [] status = "ready" -> {"completed"}
    [] OTHER -> {}

\* The statuses an order can be in, now or later, once it is in a status.
RECURSIVE NotEarlier(_)
NotEarlier(status) ==
  {status} \cup UNION { NotEarlier(next) : next \in Advance(status) }

Served(r) == "served" \in DOMAIN r

CollaboratorAdvances ==
  \E next \in Advance(srvOrders[1].status) :
    /\ srvOrders' = [srvOrders EXCEPT ![1].status = next]
    /\ ev' = Event("collaborator_advances", TRUE)
    /\ UNCHANGED <<ctxVars, routeVars, cartLocals, payLocals, inflight, nCheckouts,
                   cartClears, trackerVars>>

CollaboratorServes ==
  \E r \in refreshes :
    /\ ~Served(r)
    /\ refreshes' = (refreshes \ {r}) \cup
         {[seq |-> r.seq, orderId |-> r.orderId, live |-> r.live,
           served |-> srvOrders[1]]}
    /\ ev' = Event("collaborator_serves", TRUE)
    /\ UNCHANGED <<ctxVars, flowVars, stOrder, stLoading, stError, isPolling, polling,
                   nLoads, heldSeq, lastResponse>>

\* api.getOrderById resolved with the order as the collaborator served it:
\* setOrder(orderData); setCurrentOrder(orderData); finally setLoading(false).
LoadOrderServed ==
  \E r \in refreshes :
    /\ Served(r)
    /\ refreshes' = refreshes \ {r}
    /\ currentOrder' = r.served
    /\ lastResponse' = r.served
    /\ IF r.live
       THEN stOrder' = r.served /\ stLoading' = FALSE /\ heldSeq' = r.seq
       ELSE UNCHANGED <<stOrder, stLoading, heldSeq>>
    /\ ev' = Event("refresh_ok", r.live)
    /\ UNCHANGED <<table, cartItems, paymentMethods, selectedPaymentMethod,
                   flowVars, stError, isPolling, polling, nLoads>>

NextMonotone ==
  \/ OrderStatusEffect \/ IntervalTick
  \/ CollaboratorAdvances \/ CollaboratorServes
  \/ LoadOrderServed \/ LoadOrderFailed
  \/ TrackerOrderAgain \/ TrackerHome \/ TrackerGoHome

SpecMonotone == InitTracker /\ [][NextMonotone]_vars

(***************************************************************************)
(* Properties.                                                             *)
(***************************************************************************)
\* How many requests of a kind are in flight, stale ones included.
InFlightOf(bag, kind) ==
  BagCardinality([r \in { x \in BagToSet(bag) : x.kind = kind } |-> bag[r]])

\* The step called handleCheckout / handleUploadReceipt.
CheckoutInvoked(e) == e.op \in {"checkout_empty", "checkout_click"}
UploadInvoked(e) == e.op \in {"upload_ignored", "upload_click", "upload_retry"}

\* A receipt reference that is empty or made of whitespace only.
Blank(s) == \A i \in 1..Len(s) : s[i] = " "

\* C1: after any sequence of addToCart, updateCartItemQuantity,
\* removeFromCart, updateCartItemInstructions and clearCart calls, with any
\* item ids and quantities, no two cart lines carry the same menu item id.
C1_NoDuplicateLines ==
  \A i, j \in 1..Len(cartItems) :
    cartItems[i].menuItem = cartItems[j].menuItem => i = j

\* An addToCart call has merged into an existing line, beside another line.
C1_Witness ==
  /\ ev.op = "addToCart"
  /\ Len(cartItems) = 2
  /\ \E i \in 1..2 : cartItems[i].quantity = 2

\* C2: every cart line has quantity >= 1 in every reachable state, whatever
\* quantity argument addToCart is called with.
C2_QuantityAtLeastOne ==
  \A i \in 1..Len(cartItems) : cartItems[i].quantity >= 1

\* C3: a successful order submission clears the cart, once per created
\* order, leaves the active order equal to the created order, and moves to
\* the Payment page carrying the created order's id.
C3_SubmitSuccess ==
  /\ cartClears = Len(srvOrders)
  /\ ev.op = "checkout_ok" =>
       /\ cartItems = <<>>
       /\ currentOrder = srvOrders[Len(srvOrders)]
       /\ route = "payment"
       /\ locOrderId = currentOrder.id
       /\ OrderId = srvOrders[Len(srvOrders)].id

C3_Witness ==
  /\ ev.op = "checkout_ok"
  /\ Len(srvOrders) = 2
  /\ currentOrder.id = 2

\* C4: when order submission fails (the payment-methods fetch or createOrder
\* rejects, or building the request throws), the step leaves the cart and
\* the active order as they were, does not move to the Payment page, creates
\* no order, and sets the error of the Cart page that submitted and releases
\* its loading flag (a page no longer mounted has no state to set).
C4_SubmitFailure ==
  [][ev'.op = "checkout_failed" =>
        /\ cartItems' = cartItems
        /\ currentOrder' = currentOrder
        /\ route' = route
        /\ locOrderId' = locOrderId
        /\ srvOrders' = srvOrders
        /\ cartClears' = cartClears
        /\ ev'.live => (route' = "cart" /\ cartError' # NoError /\ ~cartLoading')]_vars

C4_Witness ==
  /\ ev = Event("checkout_failed", TRUE)
  /\ cartItems # <<>>
  /\ cartError # NoError
  /\ route = "cart"

C6_NoTableValidationBeforeNetwork ==
  [][(route = "cart" /\ cartItems # <<>> /\ table = NoTable /\ CheckoutInvoked(ev')) =>
        /\ inflight' = inflight
        /\ cartError' # NoError]_vars

\* C7: no step of payment initiation or receipt upload, first attempt or
\* retry after a failure, issues a createOrder request, starts a checkout
\* or creates an order.
PaymentStageOps ==
  { "initiate_click", "initiate_retry", "initiate_ignored", "initiate_ok_cash",
    "initiate_ok_pos", "initiate_ok_transfer", "initiate_failed",
    "upload_click", "upload_retry", "upload_ignored", "upload_ok", "upload_failed" }

C7_RetryNeverRecreatesOrder ==
  [][ev'.op \in PaymentStageOps =>
        /\ InFlightOf(inflight', "createOrder") = InFlightOf(inflight, "createOrder")
        /\ InFlightOf(inflight', "getPaymentMethods") = InFlightOf(inflight, "getPaymentMethods")
        /\ srvOrders' = srvOrders
        /\ nCheckouts' = nCheckouts]_vars

\* Payment initiation is retried after a failure, an order being created.
C7_Witness ==
  /\ ev.op = "initiate_retry"
  /\ srvOrders # <<>>
  /\ InFlightOf(inflight, "initiatePayment") >= 1

\* C8: a successful initiation with cash or pos hands over to order
\* tracking for the order it was initiated for, and the page that initiated
\* it is never in the awaiting-receipt sub-state while the request is in
\* flight or after it succeeded.
C8_DirectMethodsSkipReceipt ==
  [][/\ ev'.op \in {"initiate_ok_cash", "initiate_ok_pos"} =>
          /\ route' = "status"
          /\ ~paymentInitiated'
          /\ \E r \in Pending("initiatePayment") :
               r.method \in {"cash", "pos"} /\ locOrderId' = r.orderId
     /\ \A r \in BagToSet(inflight') :
          (r.kind = "initiatePayment" /\ r.live /\ r.method # "transfer")
            => (route' = "payment" /\ ~paymentInitiated')]_vars

C8_Witness ==
  /\ ev = Event("initiate_ok_cash", TRUE)
  /\ route = "status"
  /\ locOrderId = currentOrder.id

\* C9 as stated: once in awaiting-receipt the checkout remains there until
\* uploadReceipt succeeds.
C9_AwaitingUntilUploadSucceeds ==
  [][(route = "payment" /\ paymentInitiated) =>
        \/ route' = "payment" /\ paymentInitiated'
        \/ ev'.op = "upload_ok"]_vars

\* C9, amended: a successful transfer initiation puts the page that
\* initiated it in awaiting-receipt; a failed or ignored upload leaves it
\* there; the sub-state is left only by a successful upload, which moves to
\* order tracking, by the Back button, which discards it, or by the late
\* success of a request (cash or pos initiation, receipt upload) of a page
\* left earlier, which moves to order tracking as well.
C9_AwaitingReceipt ==
  [][/\ (ev'.op = "initiate_ok_transfer" /\ ev'.live) =>
          (route' = "payment" /\ paymentInitiated' /\ paymentId' # NoPaymentId)
     /\ (route = "payment" /\ paymentInitiated
           /\ ~(route' = "payment" /\ paymentInitiated')) =>
          \/ ev'.op = "upload_ok" /\ route' = "status"
          \/ ev'.op = "payment_back" /\ route' = "cart"
          \/ ev'.op \in {"initiate_ok_cash", "initiate_ok_pos"} /\ ~ev'.live
                /\ route' = "status"]_vars

\* A receipt upload has failed and the page still awaits the receipt.
C9_Witness ==
  /\ ev = Event("upload_failed", TRUE)
  /\ route = "payment"
  /\ paymentInitiated
  /\ paymentId # NoPaymentId

C19_AddMergesOrAppends ==
  \A item \in MenuItemIds, q \in QuantityArgs :
    LET res == addToCart(cartItems, item, q)
    IN IF \E i \in 1..Len(cartItems) : cartItems[i].menuItem = item
       THEN /\ Len(res) = Len(cartItems)
            /\ \A i \in 1..Len(res) :
                 /\ res[i].menuItem = cartItems[i].menuItem
                 /\ res[i].specialInstructions = cartItems[i].specialInstructions
                 /\ res[i].quantity =
                      IF cartItems[i].menuItem = item
                      THEN cartItems[i].quantity + q ELSE cartItems[i].quantity
            /\ Cardinality({ i \in 1..Len(res) : res[i].menuItem = item }) = 1
       ELSE /\ Len(res) = Len(cartItems) + 1
            /\ SubSeq(res, 1, Len(cartItems)) = cartItems
            /\ res[Len(res)].menuItem = item
            /\ res[Len(res)].quantity = q

\* A cart of two lines, so that adding meets a line to merge into that is
\* not the last, built by addToCart.
C19_Witness ==
  /\ ev.op = "addToCart"
  /\ Len(cartItems) = 2
  /\ cartItems[1].quantity = 2
  /\ cartItems[2].quantity = 1

\* C20: updateCartItemQuantity(itemId, q) with q <= 0 gives the cart that
\* removeFromCart(itemId) gives; with q > 0 and a line for itemId it gives
\* the same lines in the same positions, that line with quantity exactly q.
C20_SetQuantity ==
  \A itemId \in MenuItemIds, q \in QuantityArgs :
    LET res == updateCartItemQuantity(cartItems, itemId, q)
        others == { i \in 1..Len(cartItems) : cartItems[i].menuItem # itemId }
    IN IF q <= 0
       THEN /\ res = removeFromCart(cartItems, itemId)
            /\ Len(res) = Cardinality(others)
            /\ \A i \in 1..Len(res) : res[i].menuItem # itemId
       ELSE /\ Len(res) = Len(cartItems)
            /\ \A i \in 1..Len(res) :
                 /\ res[i].menuItem = cartItems[i].menuItem
                 /\ res[i].specialInstructions = cartItems[i].specialInstructions
                 /\ res[i].quantity =
                      IF cartItems[i].menuItem = itemId THEN q ELSE cartItems[i].quantity

\* updateCartItemQuantity has acted on a cart of two lines whose quantities
\* differ.
C20_Witness ==
  /\ ev.op = "updateCartItemQuantity"
  /\ Len(cartItems) = 2
  /\ cartItems[1].quantity = 1
  /\ cartItems[2].quantity = 2

\* The statuses after which the order changes no more.
TerminalStatuses == {"ready", "completed", "rejected"}

\* C12: once the page holds the order in a terminal status (ready,
\* completed or rejected), no further getOrderById request is issued.
C12_NoRefreshAfterTerminal ==
  [][(route = "status" /\ stOrder.status \in TerminalStatuses) =>
        /\ nLoads' = nLoads
        /\ refreshes' \subseteq refreshes]_vars

\* C13: at most one refresh request of the mounted page is in flight at any
\* time.
C13_OneRefreshInFlight ==
  Cardinality({ r \in refreshes : r.live }) <= 1

\* C14: while the page is mounted, the snapshot it holds is never replaced
\* by the answer to an earlier loadOrder call than the one it already
\* answers.
C14_NoOlderSnapshotOverwrites ==
  [][(route = "status" /\ route' = "status") => heldSeq' >= heldSeq]_vars

\* C15: once the page is unmounted its interval is cleared and no further
\* getOrderById request is issued; only requests already in flight remain.
C15_NoRefreshAfterDetach ==
  [][/\ route' # "status" => ~polling'
     /\ route # "status" => (nLoads' = nLoads /\ refreshes' \subseteq refreshes)
     /\ \A r \in refreshes' : r.live => route' = "status"]_vars

\* The answer to a request arrived after the page was left.
C15_Witness ==
  /\ route = "menu"
  /\ ev.op \in {"refresh_ok", "refresh_failed"}
  /\ ~ev.live
  /\ nLoads < MaxLoads

\* C16: a failed refresh leaves the held snapshot (the page's and the
\* context's) as it was, sets the page's error, and leaves the interval
\* set, so that the next tick calls loadOrder again.
C16_RefreshFailureKeepsSnapshot ==
  [][ev'.op = "refresh_failed" =>
        /\ stOrder' = stOrder
        /\ currentOrder' = currentOrder
        /\ heldSeq' = heldSeq
        /\ polling' = polling
        /\ ev'.live => (stError' # NoError /\ polling' /\ ~stLoading')]_vars

\* The interval fired after a refresh had failed, a snapshot being held.
C16_Witness ==
  /\ ev.op = "tick"
  /\ stError # NoError
  /\ stOrder # NoOrder
  /\ heldSeq >= 1
  /\ \E r \in refreshes : r.live /\ r.seq = nLoads

\* C17 as stated: a step is marked completed exactly when the order's
\* status is strictly later in pending < accepted < preparing < ready <
\* completed, and active exactly when it is the order's status.
C17_CompletedIffStrictlyLater ==
  stOrder # NoOrder =>
    \A i \in 1..Len(TimelineSteps) :
      LET step == TimelineSteps[i] IN
        /\ isCompleted(step, stOrder.status) <=>
             \E j \in 1..Len(TimelineSteps) :
               j > i /\ TimelineSteps[j] = stOrder.status
        /\ isActive(step, stOrder.status) <=> step = stOrder.status

\* C17, amended: a step is marked completed exactly when the order's status
\* is strictly later in the sequence, or the step and the status are both
\* completed; it is marked active exactly when it is the order's status,
\* so the completed step of a completed order is both.
C17_TimelineMarks ==
  stOrder # NoOrder =>
    \A i \in 1..Len(TimelineSteps) :
      LET step == TimelineSteps[i] IN
        /\ isCompleted(step, stOrder.status) <=>
             \/ \E j \in 1..Len(TimelineSteps) :
                  j > i /\ TimelineSteps[j] = stOrder.status
             \/ step = "completed" /\ stOrder.status = "completed"
        /\ isActive(step, stOrder.status) <=> step = stOrder.status

\* The page holds a completed order.
C17_Witness ==
  /\ route = "status"
  /\ stOrder.status = "completed"
  /\ ev.op = "refresh_ok"

\* C18: for each of the statuses pending, accepted, preparing, ready and
\* completed exactly one step is active; for rejected no step is completed
\* and no step is active.
C18_OneActiveStep ==
  stOrder # NoOrder =>
    /\ stOrder.status \in StepSet =>
         Cardinality({ i \in 1..Len(TimelineSteps) :
                        isActive(TimelineSteps[i], stOrder.status) }) = 1
    /\ stOrder.status = "rejected" =>
         \A i \in 1..Len(TimelineSteps) :
           /\ ~isCompleted(TimelineSteps[i], stOrder.status)
           /\ ~isActive(TimelineSteps[i], stOrder.status)

\* The page holds a rejected order, after having held it in another status.
C18_Witness ==
  /\ route = "status"
  /\ stOrder.status = "rejected"
  /\ heldSeq >= 2

\* C21: removeFromCart(itemId) for an id with no line gives the cart as it
\* was; for an id with a line it gives the other lines, each as it was and
\* in the same order.
C21_RemoveOnlyThatLine ==
  \A itemId \in MenuItemIds :
    LET res == removeFromCart(cartItems, itemId)
        at == { i \in 1..Len(cartItems) : cartItems[i].menuItem = itemId }
    IN IF at = {}
       THEN res = cartItems
       ELSE \E k \in at :
              /\ at = {k}
              /\ res = SubSeq(cartItems, 1, k - 1) \o SubSeq(cartItems, k + 1, Len(cartItems))

\* removeFromCart has left one line of a cart: the id of that line is
\* present, the other id absent.
C21_Witness ==
  /\ ev.op = "removeFromCart"
  /\ Len(cartItems) = 1
  /\ cartItems[1].specialInstructions = "x"
  /\ cartItems[1].quantity = 2

\* C22: updateCartItemInstructions(itemId, text) for an id with no line
\* gives the cart as it was, no line added; for an id with a line it gives
\* the same lines with the same quantities, that line's note being text;
\* with the empty string the note is the empty string.
C22_SetNoteOnlyThatNote ==
  \A itemId \in MenuItemIds, text \in Notes :
    LET res == updateCartItemInstructions(cartItems, itemId, text)
    IN /\ Len(res) = Len(cartItems)
       /\ \A i \in 1..Len(res) :
            /\ res[i].menuItem = cartItems[i].menuItem
            /\ res[i].quantity = cartItems[i].quantity
            /\ res[i].specialInstructions =
                 IF cartItems[i].menuItem = itemId
                 THEN text ELSE cartItems[i].specialInstructions
       /\ (\A i \in 1..Len(cartItems) : cartItems[i].menuItem # itemId) => res = cartItems

\* A note has been set on one line and set to the empty string on another.
C22_Witness ==
  /\ ev.op = "updateCartItemInstructions"
  /\ Len(cartItems) = 2
  /\ cartItems[1].specialInstructions = ""
  /\ cartItems[2].specialInstructions = "x"
  /\ cartItems[1].quantity = 2

\* C23: clearCart leaves the cart empty whatever it held, and clearCart on
\* the cart it has just emptied leaves it empty again.
C23_ClearEmptiesIdempotent ==
  [][ev'.op = "clearCart" =>
        /\ cartItems' = <<>>
        /\ cartItems' = clearCart
        /\ ev.op = "clearCart" => cartItems' = cartItems]_vars

\* clearCart has acted.
C23_Witness ==
  /\ ev.op = "clearCart"
  /\ cartItems = <<>>

\* The sum over the first n lines of unit price times quantity.
RECURSIVE LineSum(_, _)
LineSum(cart, n) ==
  IF n = 0 THEN 0
  ELSE LineSum(cart, n - 1) + price(cart[n].menuItem) * cart[n].quantity

\* C24: getCartTotal is the sum over the cart lines of unit price times
\* quantity, 0 for the empty cart, 2700 for the item priced 500 three times
\* with the item priced 1200 once, and 1200 once updateCartItemQuantity has
\* set the first of them to 0.
C24_TotalIsSumOfLines ==
  /\ getCartTotal(cartItems) = LineSum(cartItems, Len(cartItems))
  /\ cartItems = <<>> => getCartTotal(cartItems) = 0
  /\ ( /\ Len(cartItems) = 2
       /\ cartItems[1].menuItem = "a" /\ cartItems[1].quantity = 3
       /\ cartItems[2].menuItem = "b" /\ cartItems[2].quantity = 1 ) =>
       /\ getCartTotal(cartItems) = 2700
       /\ getCartTotal(updateCartItemQuantity(cartItems, "a", 0)) = 1200

\* The cart of the example: three of the item priced 500, one of the item
\* priced 1200.
C24_Witness ==
  /\ Len(cartItems) = 2
  /\ cartItems[1].menuItem = "a" /\ cartItems[1].quantity = 3
  /\ cartItems[2].menuItem = "b" /\ cartItems[2].quantity = 1
  /\ ev.op = "addToCart"

\* C25: every answered refresh puts the response, whole, in the context's
\* order and, while the page is mounted, in the page's order; the page's
\* order, once a refresh has been applied, is the one response last
\* received, and nothing else the page does changes the held order or any
\* field of it.
C25_SnapshotIsOneResponse ==
  [][/\ ev'.op = "refresh_ok" =>
          /\ currentOrder' = lastResponse'
          /\ ev'.live => stOrder' = lastResponse'
     /\ ev'.op # "refresh_ok" =>
          /\ currentOrder' = currentOrder
          /\ lastResponse' = lastResponse
          /\ stOrder' = stOrder \/ (route' # "status" /\ stOrder' = NoOrder)
     /\ heldSeq' >= 1 => stOrder' = lastResponse']_vars

\* A second response, differing from the held one in both fields, has
\* replaced it.
C25_Witness ==
  /\ ev = Event("refresh_ok", TRUE)
  /\ heldSeq >= 2
  /\ stOrder = [id |-> 1, status |-> "pending", paymentMethod |-> "transfer"]
  /\ currentOrder = stOrder

\* The context slots other than the table.
OtherSlots == <<cartItems, currentOrder, paymentMethods, selectedPaymentMethod>>

\* C26: a step that sets the table (Menu's effect, run with a tableId in
\* the URL) or that changes it leaves the cart, the order, the payment
\* method list and the selected method as they were.
C26_SetTableKeepsOtherSlots ==
  [][( \/ table' # table
       \/ (ev'.op = "menu_effect" /\ urlTable.tableId # "") ) =>
        /\ table' = tableData(urlTable)
        /\ OtherSlots' = OtherSlots]_vars

\* Menu's effect has set a table other than the one held, with a cart, an
\* order, a payment method list and a selected method in the session.
C26_Witness ==
  /\ ev.op = "menu_effect"
  /\ table = tableData([tableId |-> "t2", tableNumber |-> "7"])
  /\ cartItems # <<>>
  /\ currentOrder # NoOrder
  /\ paymentMethods # <<>>
  /\ selectedPaymentMethod # NoMethod

\* C27: once the session holds a table, no step changes it.
C27_TableImmutableOnceBound ==
  [][table # NoTable => table' = table]_vars

\* C28: every descriptor in the session's payment method list, and the
\* selected one, is active.
C28_ListedMethodsActive ==
  /\ \A i \in 1..Len(paymentMethods) : paymentMethods[i].isActive
  /\ selectedPaymentMethod # NoMethod => selectedPaymentMethod.isActive

\* The list loaded from a response that held an inactive descriptor.
C28_Witness ==
  /\ ev.op = "methods_loaded"
  /\ paymentMethods = <<mTransfer, mCash>>

\* C29: a failed initiation, answered to the mounted page, leaves the order
\* id, the order and the selected method as they were, releases the busy
\* flag and leaves "Proceed with Payment" rendered and not disabled; a
\* failed upload leaves,
\* besides, the payment id, the awaiting-receipt state and the receipt
\* field as they were and releases its busy flag; a stage invoked again
\* after its failure has a request in flight that can be answered with
\* success.
C29_FailedStageRetryable ==
  /\ [][(ev'.op \in {"initiate_failed", "upload_failed"} /\ ev'.live) =>
          /\ UNCHANGED <<ctxVars, routeVars, paymentInitiated, paymentId, receiptUrl>>
          /\ OrderId' = OrderId
          /\ payError' # NoError
          /\ route' = "payment" /\ currentOrder' # NoOrder
          /\ ev'.op = "initiate_failed" =>
               /\ ~payLoading'
               /\ ~paymentInitiated'
               /\ selectedPaymentMethod' # NoMethod
               /\ OrderId' # NoOrderId
          /\ ev'.op = "upload_failed" =>
               /\ ~uploading'
               /\ paymentInitiated'
               /\ paymentId' # NoPaymentId]_vars
  /\ [](ev.op = "initiate_retry" => ENABLED InitiatePaymentOk)
  /\ [](ev.op = "upload_retry" => ENABLED UploadReceiptOk)

\* The upload, failed once, has been invoked again for the same payment.
C29_Witness ==
  /\ ev.op = "upload_retry"
  /\ route = "payment"
  /\ paymentInitiated
  /\ paymentId # NoPaymentId
  /\ uploading
  /\ InFlightOf(inflight, "uploadTransferReceipt") >= 1

\* The page whose handler, effect or continuation a step runs.
Component(op) ==
  CASE op \in {"menu_effect", "menu_add", "menu_qty", "menu_go_cart"} -> "Menu"
    [] op \in {"cart_effect", "cart_qty", "cart_remove", "cart_note", "cart_back",
               "methods_loaded", "methods_failed", "checkout_click", "checkout_empty",
               "checkout_methods_ok", "checkout_ok", "checkout_failed"} -> "Cart"
    [] op \in {"status_effect", "status_order_again", "status_home"} -> "OrderStatus"
    [] op \in {"init", "open_table_url"} -> "router"
    [] OTHER -> "Payment"

\* The steps that call a cart operation of the context.
CartWrites == {"menu_add", "menu_qty", "cart_qty", "cart_remove", "cart_note", "checkout_ok"}

\* C30: each slot of the context is written by one page only: the table by
\* Menu, the payment method list and the order by Cart, the selected method
\* by Payment, and a cart that one page's step has just written is next
\* written by a step of that page, never by another page's.
C30_OneWriterPerSlot ==
  [][/\ table' # table => Component(ev'.op) = "Menu"
     /\ paymentMethods' # paymentMethods => Component(ev'.op) = "Cart"
     /\ currentOrder' # currentOrder => Component(ev'.op) = "Cart"
     /\ selectedPaymentMethod' # selectedPaymentMethod => Component(ev'.op) = "Payment"
     /\ (cartItems' # cartItems /\ ev.op \in CartWrites) =>
          Component(ev'.op) = Component(ev.op)]_vars

\* C31: useOrder called outside an OrderProvider throws, whatever the
\* session holds, and returns neither a context nor a default one; called
\* under the provider it returns the provider's value.
C31_UseOrderFailsFast ==
  /\ useOrder(Undefined) = Thrown
  /\ "returned" \notin DOMAIN useOrder(Undefined)
  /\ useOrder(ProviderValue) = [returned |-> ProviderValue]

\* A session whose provider holds a cart, so that the provider's value is
\* not the initial one.
C31_Witness ==
  /\ ev.op = "addToCart"
  /\ ProviderValue # InitialProviderValue
  /\ useOrder(ProviderValue).returned.cartItems = cartItems
  /\ Len(cartItems) = 2

\* C32: a submission, an initiation or an upload that has made its page
\* busy does not leave it busy for ever: the busy flag is released (or the
\* page is left) whether or not the collaborator answers.
C32_NoOperationHangs ==
  /\ (route = "cart" /\ cartLoading) ~> (route # "cart" \/ ~cartLoading)
  /\ (route = "payment" /\ payLoading) ~> (route # "payment" \/ ~payLoading)
  /\ (route = "payment" /\ uploading) ~> (route # "payment" \/ ~uploading)

\* The calls of the context's cart operations.
CartOps ==
  {"addToCart", "removeFromCart", "updateCartItemQuantity",
   "updateCartItemInstructions", "clearCart", "getCartTotal"}

\* C33: a call of a cart operation leaves the table, the order, the payment
\* method list and the selected method as they were, puts no request in
\* flight and changes nothing of the pages; getCartTotal leaves the cart as
\* it was too.
C33_CartOpsTouchOnlyCart ==
  [][ev'.op \in CartOps =>
        /\ UNCHANGED <<table, currentOrder, paymentMethods, selectedPaymentMethod>>
        /\ inflight' = inflight
        /\ UNCHANGED <<flowVars, trackerVars>>
        /\ ev'.op = "getCartTotal" => cartItems' = cartItems]_vars

\* clearCart has been called in a session that holds a table, an order, a
\* payment method list and a selected method.
C33_Witness ==
  /\ ev.op = "clearCart"
  /\ table # NoTable
  /\ currentOrder # NoOrder
  /\ paymentMethods # <<>>
  /\ selectedPaymentMethod # NoMethod

\* C34: with a collaborator whose status for the order only advances, the
\* status the mounted page holds never goes back: the status held after a
\* step is the one held before it or one the order can reach from it.
C34_HeldStatusMonotone ==
  [][(route = "status" /\ route' = "status" /\ stOrder # NoOrder /\ stOrder' # NoOrder) =>
        stOrder'.status \in NotEarlier(stOrder.status)]_vars

\* The index of the first active descriptor of a list, 0 when none is.
FirstActive(methods) ==
  IF \E i \in 1..Len(methods) : methods[i].isActive
  THEN CHOOSE i \in 1..Len(methods) :
         /\ methods[i].isActive
         /\ \A j \in 1..(i - 1) : ~methods[j].isActive
  ELSE 0

\* C35: the createOrder body built for the bound table, the cart and any
\* payment method list returned carries the table's id, one entry per cart
\* line, in cart order, with the line's item id, quantity and note, and as
\* payment method the type of the first active descriptor, cash when no
\* descriptor is active.
C35_CreateOrderPayload ==
  table # NoTable =>
    \A methods \in PaymentMethodResponses :
      LET payload == createOrderPayload(table, cartItems, methods)
          first == FirstActive(methods)
      IN /\ payload.tableId = table.id
         /\ Len(payload.items) = Len(cartItems)
         /\ \A i \in 1..Len(cartItems) :
              /\ payload.items[i].menuItemId = cartItems[i].menuItem
              /\ payload.items[i].quantity = cartItems[i].quantity
              /\ payload.items[i].specialInstructions = cartItems[i].specialInstructions
         /\ payload.paymentMethod = IF first = 0 THEN "cash" ELSE methods[first].type

\* A bound table and a cart of two lines, the second with a note, for which
\* the body is built.
C35_Witness ==
  /\ table # NoTable
  /\ Len(cartItems) = 2
  /\ cartItems[1].menuItem = "b" /\ cartItems[1].quantity = 2
  /\ cartItems[2].specialInstructions = "x"
  /\ createOrderPayload(table, cartItems, <<mOff>>).paymentMethod = "cash"

\* C36: the payment method of every initiatePayment request in flight is
\* the payment method the collaborator recorded on the request's order
\* when it created it.
C36_InitiatedMethodIsOrderMethod ==
  \A r \in Pending("initiatePayment") :
    r.orderId \in 1..Len(srvOrders) => r.method = srvOrders[r.orderId].paymentMethod

\* How many requests of handleCheckout (its getPaymentMethods, then its
\* createOrder) are in flight for a cart content.
SubmissionsInFlight(cart) ==
  LET S == { x \in BagToSet(inflight) :
               x.kind \in {"getPaymentMethods", "createOrder"} /\ x.cart = cart }
  IN BagCardinality([x \in S |-> inflight[x]])

\* C37: for one cart content at most one submission is in flight at any
\* time.
C37_OneSubmissionPerCart ==
  \A r \in BagToSet(inflight) : SubmissionsInFlight(r.cart) <= 1

\* C38: a getOrderById response that arrives once the page has been left
\* leaves the context's order as it was.
C38_LateResponseKeepsOrder ==
  [][(ev'.op = "refresh_ok" /\ ~ev'.live) => currentOrder' = currentOrder]_vars

\* C39: a getOrderById response applied by the mounted page leaves the
\* page's error cleared, whatever failure came before it.
C39_SuccessClearsError ==
  [][(ev'.op = "refresh_ok" /\ ev'.live) => stError' = NoError]_vars

\* C40: a selected payment method is one of the descriptors of the payment
\* method list the session holds.
C40_SelectedIsListed ==
  selectedPaymentMethod # NoMethod =>
    \E i \in 1..Len(paymentMethods) : paymentMethods[i] = selectedPaymentMethod

====
